---------------------------- MODULE Spec2Model ----------------------------
(***************************************************************************)
(* A model of Experiments/model.py of MTGL-ADMET: ResGCNLayer,             *)
(* WeightAndSum and MTGL_ADMET.                                            *)
(*                                                                         *)
(* A tensor is modelled by its shape (rows, cols) and by the symbolic term *)
(* that produced it (src): which module, with which index, was applied to  *)
(* which operands.  Floating point values are not modelled.  A Python      *)
(* exception is a tensor-shaped value whose err field names the exception; *)
(* the step that meets one moves the call to pc = "fault".                 *)
(*                                                                         *)
(* Inputs are the valid ones: every molecule of the batch has at least one *)
(* atom, GraphConv accepts the graph, and the node feature tensor handed   *)
(* to a module has one row per node and the width the module declares.     *)
(***************************************************************************)
EXTENDS Integers, Sequences, FiniteSets, TLC

VARIABLES
    target,            \* which object the caller built: "layer", "readout", "model"
    training,          \* nn.Module.training of the object under call
    layer,             \* the ResGCNLayer built on its own
    ws,                \* the WeightAndSum (built on its own, or model.weighted_sum_readout)
    model,             \* the MTGL_ADMET
    batch_num_nodes,   \* bg: atoms of each molecule of the batch
    ndata,             \* bg.ndata: the graph's current node frame
    ndata0,            \* bg.ndata as it was before the first call
    scope,             \* node frames saved by the open bg.local_scope() blocks
    pc,                \* position of the call in progress
    i,                 \* the loop variable of the loop in progress
    node_feats,        \* MTGL_ADMET.forward: node_feats
    feats,             \* WeightAndSum.forward: feats
    feat_list,         \* WeightAndSum.forward: feat_list
    atom_list,         \* WeightAndSum.forward: atom_list
    specific_feats_sum,\* WeightAndSum.forward: specific_feats_sum
    shared_feats_sum,  \* WeightAndSum.forward: shared_feats_sum
    feats_list,        \* MTGL_ADMET.forward: feats_list
    atom_weight_list,  \* MTGL_ADMET.forward: atom_weight_list
    hg,                \* MTGL_ADMET.forward: hg
    combine,           \* MTGL_ADMET.forward: combine
    combine_2,         \* MTGL_ADMET.forward: combine_2
    prediction_all,    \* MTGL_ADMET.forward: prediction_all
    ret,               \* what the last call returned
    fault              \* the exception that ended the last call

vars == <<target, training, layer, ws, model, batch_num_nodes, ndata, ndata0,
          scope, pc, i, node_feats, feats, feat_list, atom_list,
          specific_feats_sum, shared_feats_sum, feats_list, atom_weight_list,
          hg, combine, combine_2, prediction_all, ret, fault>>

config_vars == <<target, layer, ws, model, batch_num_nodes, ndata0>>

ws_locals == <<feats, feat_list, atom_list, specific_feats_sum, shared_feats_sum>>

model_locals == <<node_feats, feats_list, atom_weight_list, hg, combine,
                  combine_2, prediction_all>>

(***************************************************************************)
(* Bounds of the model.                                                    *)
(***************************************************************************)
MaxTasks == 7
MaxBatch == 2
MaxAtoms == 3

(***************************************************************************)
(* Terms and tensors.                                                      *)
(***************************************************************************)
Sym(op, idx, args) == [op |-> op, idx |-> idx, args |-> args]

Tensor(rows, cols, src) == [rows |-> rows, cols |-> cols, src |-> src, err |-> "ok"]

Raise(kind) == [rows |-> 0, cols |-> 0, src |-> Sym("raise", 0, <<>>), err |-> kind]

Unbound == Raise("UnboundLocalError")

\* The value of a statement that completed.
None == Tensor(0, 0, Sym("None", 0, <<>>))

IsErr(t) == t.err # "ok"

\* The first exception among the values of a sequence, in evaluation order.
RECURSIVE FirstErr(_)
FirstErr(ts) ==
    IF ts = <<>> THEN None
    ELSE IF IsErr(Head(ts)) THEN Head(ts) ELSE FirstErr(Tail(ts))

\* list[k] of Python for k >= 0.
Idx(list, k) == IF k < Len(list) THEN list[k + 1] ELSE Raise("IndexError")

RECURSIVE SumSeq(_)
SumSeq(s) == IF s = <<>> THEN 0 ELSE Head(s) + SumSeq(Tail(s))

\* Whether a term mentions module op anywhere.
RECURSIVE Mentions(_, _)
Mentions(term, op) ==
    \/ term.op = op
    \/ \E k \in 1..Len(term.args) : Mentions(term.args[k], op)

NumNodes == SumSeq(batch_num_nodes)

BatchSize == Len(batch_num_nodes)


(***************************************************************************)
(* The library modules the source builds on, by shape and by fault.        *)
(***************************************************************************)
\* nn.Linear(in_features, out_features) applied to x.
Linear(name, idx, in_features, out_features, x) ==
    IF IsErr(x) THEN x
    ELSE IF x.cols # in_features THEN Raise("RuntimeError")
    ELSE Tensor(x.rows, out_features, Sym(name, idx, <<x.src>>))

\* nn.BatchNorm1d(num_features) applied to x: in training mode it needs more
\* than one row ("Expected more than 1 value per channel when training").
BatchNorm1d(name, idx, num_features, train, x) ==
    IF IsErr(x) THEN x
    ELSE IF train /\ x.rows <= 1 THEN Raise("ValueError")
    ELSE IF x.cols # num_features THEN Raise("RuntimeError")
    ELSE Tensor(x.rows, x.cols, Sym(name, idx, <<x.src>>))

\* An elementwise map (F.relu, nn.ReLU, nn.Sigmoid, F.softmax, nn.Dropout).
Elementwise(name, x) ==
    IF IsErr(x) THEN x ELSE Tensor(x.rows, x.cols, Sym(name, 0, <<x.src>>))

\* a + b on tensors of one shape.
Add(a, b) ==
    IF IsErr(a) THEN a
    ELSE IF IsErr(b) THEN b
    ELSE IF a.rows # b.rows \/ a.cols # b.cols THEN Raise("RuntimeError")
    ELSE Tensor(a.rows, a.cols, Sym("add", 0, <<a.src, b.src>>))

\* torch.cat([a, b], dim=1): the columns of a, then those of b.
Columns(t) == IF t.src.op = "cat" THEN t.src.args ELSE <<t.src>>

Cat(a, b) ==
    IF IsErr(a) THEN a
    ELSE IF IsErr(b) THEN b
    ELSE IF a.rows # b.rows THEN Raise("RuntimeError")
    ELSE Tensor(a.rows, a.cols + b.cols, Sym("cat", 0, Columns(a) \o Columns(b)))

\* GraphConv(in_feats, out_feats, bias=True, activation=activation)(bg, x): one
\* row per node of bg; it works in a scope of its own and leaves bg.ndata alone.
GraphConv(idx, in_feats, out_feats, x) ==
    IF IsErr(x) THEN x
    ELSE IF x.rows # NumNodes THEN Raise("DGLError")
    ELSE IF x.cols # in_feats THEN Raise("RuntimeError")
    ELSE Tensor(x.rows, out_feats, Sym("graph_conv_layer", idx, <<x.src>>))

(***************************************************************************)
(* bg.ndata and bg.local_scope().                                          *)
(***************************************************************************)
Keys == {"h", "w"}

\* A key bg.ndata does not hold: reading it raises KeyError.
Absent == Raise("KeyError")

\* bg.ndata[key] = t: one row per node, or DGLError.
SetNData(nd, key, t) == [nd EXCEPT ![key] = t]

SetNDataFault(t) ==
    IF IsErr(t) THEN t
    ELSE IF t.rows # NumNodes THEN Raise("DGLError")
    ELSE None

\* Entering "with bg.local_scope()": the frame is saved, writes go to a copy.
EnterLocalScope(stack, nd) == <<nd>> \o stack

\* Leaving it: the saved frame is the graph's frame again.
ExitLocalScope_keep(stack, nd) == nd

ExitLocalScope(stack, nd) == Head(stack)

\* sum_nodes(bg, 'h', 'w'): per graph, the sum over its nodes of w * h.
sum_nodes(nd, feat, weight) ==
    IF IsErr(nd[feat]) THEN nd[feat]
    ELSE IF IsErr(nd[weight]) THEN nd[weight]
    ELSE Tensor(BatchSize, nd[feat].cols,
                Sym("sum_nodes", 0, <<nd[feat].src, nd[weight].src>>))

\* dgl.mean_nodes(bg, 'h'): per graph, the mean over its nodes of h.
mean_nodes(nd, feat) ==
    IF IsErr(nd[feat]) THEN nd[feat]
    ELSE Tensor(BatchSize, nd[feat].cols, Sym("mean_nodes", 0, <<nd[feat].src>>))

(***************************************************************************)
(* ResGCNLayer.                                                            *)
(***************************************************************************)
\* ResGCNLayer(in_feats, out_feats, residual=..., batchnorm=...)
ResGCNLayer(idx, in_feats, out_feats, residual, batchnorm) ==
    [idx |-> idx, in_feats |-> in_feats, out_feats |-> out_feats,
     residual |-> residual, bn |-> batchnorm]

\* "del res_feats": the name is bound only when the residual branch ran.
DelResFeats(l) == IF l.residual THEN None ELSE Raise("UnboundLocalError")

ResGCNLayer_forward(l, train, x) ==
    LET conv == GraphConv(l.idx, l.in_feats, l.out_feats, x)
        res_feats == Elementwise("activation",
                        Linear("res_connection", l.idx, l.in_feats, l.out_feats, x))
        summed == IF l.residual THEN Add(conv, res_feats) ELSE conv
        new_feats == IF l.bn
                     THEN BatchNorm1d("bn_layer", l.idx, l.out_feats, train, summed)
                     ELSE summed
        del == IF IsErr(new_feats) THEN new_feats ELSE DelResFeats(l)
    IN  IF IsErr(del) THEN del ELSE new_feats

(***************************************************************************)
(* The state between calls.                                                *)
(***************************************************************************)
NoFault == [kind |-> "none", at |-> "none"]

NoRet == [kind |-> "none", tensor |-> Unbound, list |-> <<>>, list2 |-> <<>>]

RetTensor(t) == [kind |-> "tensor", tensor |-> t, list |-> <<>>, list2 |-> <<>>]

RetList(l) == [kind |-> "list", tensor |-> Unbound, list |-> l, list2 |-> <<>>]

RetTuple(l, m) == [kind |-> "tuple", tensor |-> Unbound, list |-> l, list2 |-> m]

Between == {"idle", "done", "fault"}

\* No call in progress: the frame of the last call is gone.
FreshFrame ==
    /\ i = 0
    /\ node_feats = Unbound
    /\ feats = Unbound
    /\ feat_list = <<>>
    /\ atom_list = <<>>
    /\ specific_feats_sum = Unbound
    /\ shared_feats_sum = Unbound
    /\ feats_list = <<>>
    /\ atom_weight_list = <<>>
    /\ hg = Unbound
    /\ combine = <<>>
    /\ combine_2 = <<>>
    /\ prediction_all = Unbound

\* The locals of a new call of WeightAndSum.forward(bg, x).
WS_Enter(x) ==
    /\ i' = 0
    /\ feats' = x
    /\ feat_list' = <<>>
    /\ atom_list' = <<>>
    /\ specific_feats_sum' = Unbound
    /\ shared_feats_sum' = Unbound

\* The locals of a new call of MTGL_ADMET.forward(bg, x).
Model_Enter(x) ==
    /\ node_feats' = x
    /\ feats_list' = <<>>
    /\ atom_weight_list' = <<>>
    /\ hg' = Unbound
    /\ combine' = <<>>
    /\ combine_2' = <<>>
    /\ prediction_all' = Unbound

FreshFrame_next == WS_Enter(Unbound) /\ Model_Enter(Unbound)

\* The batches: 1..MaxBatch molecules of 1..MaxAtoms atoms each.
BatchShapes == UNION {[1..b -> 1..MaxAtoms] : b \in 1..MaxBatch}

\* What bg.ndata holds before the first call: nothing under 'h' and 'w', or
\* the caller's own features under 'h'.
InitialNData ==
    {[k \in Keys |-> Absent],
     [k \in Keys |-> IF k = "h"
                     THEN Tensor(NumNodes, 1, Sym("callers_h", 0, <<>>))
                     ELSE Absent]}

InitGraph ==
    /\ batch_num_nodes \in BatchShapes
    /\ ndata \in InitialNData
    /\ ndata0 = ndata
    /\ scope = <<>>
    /\ pc = "idle"
    /\ ret = NoRet
    /\ fault = NoFault
    /\ FreshFrame

NoLayer == ResGCNLayer(0, 0, 0, TRUE, TRUE)

NoReadout == [in_feats |-> 0, task_num |-> 0, attention |-> TRUE, return_weight |-> FALSE]

NoModel == [task_num |-> 0, return_weight |-> FALSE, gnn_out_feats |-> 0,
            in_feats |-> 0, hidden_feats |-> 0, classifier_hidden_feats |-> 0]

\* The tensor the caller passes: one row per node, of the declared width.
Input(width) == Tensor(NumNodes, width, Sym("node_feats", 0, <<>>))

\* model.train() / model.eval(), between calls.
Train ==
    /\ pc \in Between
    /\ training' = TRUE
    /\ pc' = "idle"
    /\ ret' = NoRet
    /\ fault' = NoFault
    /\ FreshFrame_next
    /\ UNCHANGED <<config_vars, ndata, scope>>

Eval ==
    /\ pc \in Between
    /\ training' = FALSE
    /\ pc' = "idle"
    /\ ret' = NoRet
    /\ fault' = NoFault
    /\ FreshFrame_next
    /\ UNCHANGED <<config_vars, ndata, scope>>

(***************************************************************************)
(* A ResGCNLayer built and called on its own.                              *)
(***************************************************************************)
LayerWidths == {2, 3}

InitLayer ==
    /\ target = "layer"
    /\ training = TRUE
    /\ \E n \in LayerWidths, m \in LayerWidths, r \in BOOLEAN, b \in BOOLEAN :
          layer = ResGCNLayer(0, n, m, r, b)
    /\ ws = NoReadout
    /\ model = NoModel
    /\ InitGraph

\* new_feats = layer(bg, node_feats)
Layer_forward ==
    /\ target = "layer"
    /\ pc \in Between
    /\ LET out == ResGCNLayer_forward(layer, training, Input(layer.in_feats))
       IN  /\ pc' = IF IsErr(out) THEN "fault" ELSE "done"
           /\ ret' = IF IsErr(out) THEN NoRet ELSE RetTensor(out)
           /\ fault' = IF IsErr(out)
                       THEN [kind |-> out.err, at |-> "ResGCNLayer.forward"]
                       ELSE NoFault
    /\ FreshFrame_next
    /\ UNCHANGED <<config_vars, training, ndata, scope>>

NextLayer == Layer_forward \/ Train \/ Eval

SpecLayer == InitLayer /\ [][NextLayer]_vars

(***************************************************************************)
(* WeightAndSum.                                                           *)
(***************************************************************************)
\* WeightAndSum(in_feats, task_num=1, attention=True, return_weight=False)
WeightAndSum(in_feats, task_num, attention, return_weight) ==
    [in_feats |-> in_feats, task_num |-> task_num, attention |-> attention,
     return_weight |-> return_weight]

\* atom_weight(in_feats): nn.Sequential(nn.Linear(in_feats, 1), nn.Sigmoid())
atom_weight(name, idx, in_feats, x) ==
    Elementwise("Sigmoid", Linear(name, idx, in_feats, 1, x))

\* self.atom_weighting_specific[k](x)
atom_weighting_specific_first(w, k, x) ==
    atom_weight("atom_weighting_specific", 0, w.in_feats, x)

atom_weighting_specific(w, k, x) ==
    IF k < w.task_num
    THEN atom_weight("atom_weighting_specific", k, w.in_feats, x)
    ELSE Raise("IndexError")

\* self.shared_weighting(x)
shared_weighting(w, x) == atom_weight("shared_weighting", 0, w.in_feats, x)

\* What forward returns, from its locals.
WeightAndSum_return_appended(w, fl, al, shared) ==
    IF w.attention
    THEN IF w.return_weight
         THEN RetTuple(Append(fl, shared), al)
         ELSE RetList(Append(fl, shared))
    ELSE RetTensor(shared)

WeightAndSum_return_weight_first(w, fl, al, shared) ==
    IF w.return_weight
    THEN RetTuple(fl, al)
    ELSE IF w.attention THEN RetList(fl) ELSE RetTensor(shared)

WeightAndSum_return(w, fl, al, shared) ==
    IF w.attention
    THEN IF w.return_weight THEN RetTuple(fl, al) ELSE RetList(fl)
    ELSE RetTensor(shared)

\* A statement of forward raised: the call ends there, the frame of bg as the
\* statement left it.
WS_Raise(e, where) ==
    /\ pc' = "fault"
    /\ fault' = [kind |-> e.err, at |-> where]
    /\ UNCHANGED <<ndata, scope, i, ws_locals, ret>>

\* The body of "for i in range(self.task_num): with bg.local_scope():"
WS_SpecificBody ==
    /\ pc = "ws_specific"
    /\ i < ws.task_num
    /\ LET nd1 == SetNData(ndata, "h", feats)
           weight == atom_weighting_specific(ws, i, feats)
           nd2 == SetNData(nd1, "w", weight)
           sum == sum_nodes(nd2, "h", "w")
           e == FirstErr(<<SetNDataFault(feats), weight, SetNDataFault(weight), sum>>)
       IN  IF IsErr(e) THEN WS_Raise(e, "WeightAndSum.forward")
           ELSE /\ scope' = EnterLocalScope(scope, ndata)
                /\ ndata' = nd2
                /\ specific_feats_sum' = sum
                /\ atom_list' = Append(atom_list, nd2["w"])
                /\ pc' = "ws_specific_exit"
                /\ UNCHANGED <<i, feats, feat_list, shared_feats_sum, ret, fault>>
    /\ UNCHANGED <<config_vars, training, model_locals>>

\* The end of that with block, and feat_list.append(specific_feats_sum).
WS_SpecificExit ==
    /\ pc = "ws_specific_exit"
    /\ ndata' = ExitLocalScope(scope, ndata)
    /\ scope' = Tail(scope)
    /\ feat_list' = Append(feat_list, specific_feats_sum)
    /\ i' = i + 1
    /\ pc' = "ws_specific"
    /\ UNCHANGED <<config_vars, training, model_locals, feats, atom_list,
                   specific_feats_sum, shared_feats_sum, ret, fault>>

\* After the loop: the body of the with block of the shared feats.
WS_SharedBody ==
    /\ pc = "ws_specific"
    /\ i >= ws.task_num
    /\ LET nd1 == SetNData(ndata, "h", feats)
           weight == shared_weighting(ws, feats)
           nd2 == SetNData(nd1, "w", weight)
           sum == sum_nodes(nd2, "h", "w")
           e == FirstErr(<<SetNDataFault(feats), weight, SetNDataFault(weight), sum>>)
       IN  IF IsErr(e) THEN WS_Raise(e, "WeightAndSum.forward")
           ELSE /\ scope' = EnterLocalScope(scope, ndata)
                /\ ndata' = nd2
                /\ shared_feats_sum' = sum
                /\ pc' = "ws_shared_exit"
                /\ UNCHANGED <<i, feats, feat_list, atom_list, specific_feats_sum,
                               ret, fault>>
    /\ UNCHANGED <<config_vars, training, model_locals>>

\* The end of that with block.
WS_SharedExit ==
    /\ pc = "ws_shared_exit"
    /\ ndata' = ExitLocalScope(scope, ndata)
    /\ scope' = Tail(scope)
    /\ pc' = "ws_return"
    /\ UNCHANGED <<config_vars, training, model_locals, i, ws_locals, ret, fault>>

\* The return statements; the value goes to the caller.
WS_Return ==
    /\ pc = "ws_return"
    /\ ret' = WeightAndSum_return(ws, feat_list, atom_list, shared_feats_sum)
    /\ pc' = IF target = "model" THEN "unpack" ELSE "done"
    /\ UNCHANGED <<config_vars, training, model_locals, ndata, scope, i,
                   ws_locals, fault>>

(***************************************************************************)
(* A WeightAndSum built and called on its own.                             *)
(***************************************************************************)
ReadoutWidths == {2, 3}

InitReadout ==
    /\ target = "readout"
    /\ training = TRUE
    /\ layer = NoLayer
    /\ \E n \in ReadoutWidths, t \in 0..MaxTasks, a \in BOOLEAN, r \in BOOLEAN :
          ws = WeightAndSum(n, t, a, r)
    /\ model = NoModel
    /\ InitGraph

\* out = readout(bg, feats)
WS_Call ==
    /\ target = "readout"
    /\ pc \in Between
    /\ WS_Enter(Input(ws.in_feats))
    /\ Model_Enter(Unbound)
    /\ pc' = "ws_specific"
    /\ ret' = NoRet
    /\ fault' = NoFault
    /\ UNCHANGED <<config_vars, training, ndata, scope>>

NextReadout ==
    \/ WS_Call
    \/ WS_SpecificBody
    \/ WS_SpecificExit
    \/ WS_SharedBody
    \/ WS_SharedExit
    \/ WS_Return

SpecReadout == InitReadout /\ [][NextReadout]_vars

(***************************************************************************)
(* MTGL_ADMET.                                                             *)
(***************************************************************************)
\* self.num_gates = 4
num_gates == 4

\* The in_features of each nn.Linear(64, 2) of self.gates.
gate_in_features == 64

\* classifier_hidden_feats=128
default_classifier_hidden_feats == 128

\* MTGL_ADMET(in_feats, hidden_feats, gnn_out_feats, n_tasks, return_weight=...)
MTGL_ADMET(in_feats, hidden_feats, gnn_out_feats, n_tasks, return_weight) ==
    [task_num |-> n_tasks, return_weight |-> return_weight,
     gnn_out_feats |-> gnn_out_feats, in_feats |-> in_feats,
     hidden_feats |-> hidden_feats,
     classifier_hidden_feats |-> default_classifier_hidden_feats]

\* self.weighted_sum_readout
weighted_sum_readout(m) == WeightAndSum(m.gnn_out_feats, m.task_num, TRUE, m.return_weight)

\* self.conv1, self.conv2
conv1(m) == ResGCNLayer(1, m.in_feats, m.hidden_feats, TRUE, TRUE)

conv2(m) == ResGCNLayer(2, m.hidden_feats, m.gnn_out_feats, TRUE, TRUE)

\* self.gates[k](x)
gates(m, k, x) ==
    IF k < m.task_num THEN Linear("gates", k, gate_in_features, 2, x)
    ELSE Raise("IndexError")

\* fc_layer(dropout, in_feats, hidden_feats): Dropout, Linear, ReLU, BatchNorm1d.
fc_layer(name, k, train, in_feats, hidden_feats, x) ==
    LET lin == Linear("Linear", 0, in_feats, hidden_feats, Elementwise("Dropout", x))
        bn == BatchNorm1d("BatchNorm1d", 0, hidden_feats, train, Elementwise("ReLU", lin))
    IN  IF IsErr(bn) THEN bn ELSE Tensor(bn.rows, bn.cols, Sym(name, k, <<x.src>>))

\* output_layer(hidden_feats, out_feats): Linear.
output_layer(name, k, hidden_feats, out_feats, x) ==
    Linear(name, k, hidden_feats, out_feats, x)

\* m = torch.sum(torch.cat((x_1, y_1), dim=1) * gate, dim=1)
Blend(x, y, gate) ==
    IF IsErr(x) THEN x
    ELSE IF IsErr(y) THEN y
    ELSE IF IsErr(gate) THEN gate
    ELSE IF x.rows # y.rows \/ x.cols # y.cols \/ gate.rows # x.rows
         THEN Raise("RuntimeError")
    ELSE Tensor(x.rows, x.cols, Sym("blend", 0, <<x.src, y.src, gate.src>>))

\* combine[0]+combine[1]+combine[2]+combine[3]
Combine1(c) == Add(Add(Add(Idx(c, 0), Idx(c, 1)), Idx(c, 2)), Idx(c, 3))

\* combine_2, from feats_list and combine_1.
Assemble_blend_first(fl, combine_1) ==
    <<combine_1, Idx(fl, 0), Idx(fl, 1), Idx(fl, 2), Idx(fl, 3)>>

Assemble(fl, combine_1) ==
    <<Idx(fl, 0), combine_1, Idx(fl, 1), Idx(fl, 2), Idx(fl, 3)>>

\* The number of heads the FC loop runs: range(self.task_num).
HeadCount_gates(m) == num_gates

HeadCount(m) == m.task_num

\* A statement of forward raised: the call ends there.
Model_Raise(e, where) ==
    /\ pc' = "fault"
    /\ fault' = [kind |-> e.err, at |-> where]
    /\ UNCHANGED <<ndata, scope, i, ws_locals, model_locals, ret>>

\* out = model(bg, node_feats)
Model_Call ==
    /\ target = "model"
    /\ pc \in Between
    /\ Model_Enter(Input(model.in_feats))
    /\ WS_Enter(Unbound)
    /\ pc' = "conv1"
    /\ ret' = NoRet
    /\ fault' = NoFault
    /\ UNCHANGED <<config_vars, training, ndata, scope>>

\* node_feats = self.conv1(bg, node_feats)
Model_Conv1 ==
    /\ pc = "conv1"
    /\ LET out == ResGCNLayer_forward(conv1(model), training, node_feats)
       IN  IF IsErr(out) THEN Model_Raise(out, "conv1")
           ELSE /\ node_feats' = out
                /\ pc' = "conv2"
                /\ UNCHANGED <<ndata, scope, i, ws_locals, feats_list, atom_weight_list,
                               hg, combine, combine_2, prediction_all, ret, fault>>
    /\ UNCHANGED <<config_vars, training>>

\* node_feats = self.conv2(bg, node_feats)
Model_Conv2 ==
    /\ pc = "conv2"
    /\ LET out == ResGCNLayer_forward(conv2(model), training, node_feats)
       IN  IF IsErr(out) THEN Model_Raise(out, "conv2")
           ELSE /\ node_feats' = out
                /\ pc' = "readout"
                /\ UNCHANGED <<ndata, scope, i, ws_locals, feats_list, atom_weight_list,
                               hg, combine, combine_2, prediction_all, ret, fault>>
    /\ UNCHANGED <<config_vars, training>>

\* The call self.weighted_sum_readout(bg, node_feats).
Model_Readout ==
    /\ pc = "readout"
    /\ WS_Enter(node_feats)
    /\ pc' = "ws_specific"
    /\ UNCHANGED <<config_vars, training, ndata, scope, model_locals, ret, fault>>

\* The assignment of what the readout returned: "feats_list, atom_weight_list ="
\* when self.return_weight, "feats_list =" otherwise.
Model_Unpack ==
    /\ pc = "unpack"
    /\ IF model.return_weight /\ ret.kind # "tuple"
       THEN Model_Raise(Raise("ValueError"), "feats_list, atom_weight_list =")
       ELSE /\ feats_list' = ret.list
            /\ atom_weight_list' = IF model.return_weight THEN ret.list2 ELSE <<>>
            /\ pc' = "mean"
            /\ UNCHANGED <<ndata, scope, i, ws_locals, node_feats, hg, combine,
                           combine_2, prediction_all, ret, fault>>
    /\ UNCHANGED <<config_vars, training>>

\* combine = []; bg.ndata['h'] = node_feats; hg = dgl.mean_nodes(bg, 'h')
Model_Mean ==
    /\ pc = "mean"
    /\ LET nd == SetNData(ndata, "h", node_feats)
           mean == mean_nodes(nd, "h")
           e == FirstErr(<<SetNDataFault(node_feats), mean>>)
       IN  IF IsErr(e) THEN Model_Raise(e, "mean_nodes")
           ELSE /\ ndata' = nd
                /\ hg' = mean
                /\ combine' = <<>>
                /\ i' = 0
                /\ pc' = "gate"
                /\ UNCHANGED <<scope, ws_locals, node_feats, feats_list,
                               atom_weight_list, combine_2, prediction_all, ret, fault>>
    /\ UNCHANGED <<config_vars, training>>

\* The body of "for i in range(num_gates):"
Model_Gate ==
    /\ pc = "gate"
    /\ i < num_gates
    /\ LET x == Idx(feats_list, i)
           y == Idx(feats_list, num_gates)
           gate == Elementwise("softmax", gates(model, i, hg))
           m == Blend(x, y, gate)
       IN  IF IsErr(x) THEN Model_Raise(x, "feats_list[i]")
           ELSE IF IsErr(y) THEN Model_Raise(y, "feats_list[num_gates]")
           ELSE IF IsErr(gate) THEN Model_Raise(gate, "gates[i](hg)")
           ELSE IF IsErr(m) THEN Model_Raise(m, "w * gate")
           ELSE /\ combine' = Append(combine, m)
                /\ i' = i + 1
                /\ pc' = "gate"
                /\ UNCHANGED <<ndata, scope, ws_locals, node_feats, feats_list,
                               atom_weight_list, hg, combine_2, prediction_all,
                               ret, fault>>
    /\ UNCHANGED <<config_vars, training>>

\* After the loop: combine_1 and combine_2.
Model_Assemble ==
    /\ pc = "gate"
    /\ i >= num_gates
    /\ LET combine_1 == Combine1(combine)
           slots == Assemble(feats_list, combine_1)
           e == FirstErr(<<combine_1>> \o slots)
       IN  IF IsErr(e) THEN Model_Raise(e, "combine_2.append")
           ELSE /\ combine_2' = slots
                /\ i' = 0
                /\ pc' = "fc"
                /\ UNCHANGED <<ndata, scope, ws_locals, node_feats, feats_list,
                               atom_weight_list, hg, combine, prediction_all,
                               ret, fault>>
    /\ UNCHANGED <<config_vars, training>>

\* The body of "for i in range(self.task_num):"
Model_FC ==
    /\ pc = "fc"
    /\ i < HeadCount(model)
    /\ LET mol_feats == Idx(combine_2, i)
           h1 == fc_layer("fc_layers1", i, training, model.gnn_out_feats,
                          model.classifier_hidden_feats, mol_feats)
           h2 == fc_layer("fc_layers2", i, training, model.classifier_hidden_feats,
                          model.classifier_hidden_feats, h1)
           predict == output_layer("output_layer1", i,
                                   model.classifier_hidden_feats, 1, h2)
           all == IF i = 0 THEN predict ELSE Cat(prediction_all, predict)
       IN  IF IsErr(mol_feats) THEN Model_Raise(mol_feats, "combine_2[i]")
           ELSE IF IsErr(h1) THEN Model_Raise(h1, "fc_layers1[i]")
           ELSE IF IsErr(h2) THEN Model_Raise(h2, "fc_layers2[i]")
           ELSE IF IsErr(predict) THEN Model_Raise(predict, "output_layer1[i]")
           ELSE IF IsErr(all) THEN Model_Raise(all, "torch.cat")
           ELSE /\ prediction_all' = all
                /\ i' = i + 1
                /\ pc' = "fc"
                /\ UNCHANGED <<ndata, scope, ws_locals, node_feats, feats_list,
                               atom_weight_list, hg, combine, combine_2, ret, fault>>
    /\ UNCHANGED <<config_vars, training>>

\* return prediction_all
Model_Return ==
    /\ pc = "fc"
    /\ i >= HeadCount(model)
    /\ IF IsErr(prediction_all) THEN Model_Raise(prediction_all, "return prediction_all")
       ELSE /\ ret' = RetTensor(prediction_all)
            /\ pc' = "done"
            /\ UNCHANGED <<ndata, scope, i, ws_locals, model_locals, fault>>
    /\ UNCHANGED <<config_vars, training>>

(***************************************************************************)
(* An MTGL_ADMET built and called.                                         *)
(***************************************************************************)
InFeatsChoices == {74}

HiddenFeatsChoices == {128}

GnnOutFeatsChoices == {32, 64, 128}

InitModel ==
    /\ target = "model"
    /\ training = TRUE
    /\ layer = NoLayer
    /\ \E n \in InFeatsChoices, h \in HiddenFeatsChoices, g \in GnnOutFeatsChoices,
          t \in 0..MaxTasks, r \in BOOLEAN :
          model = MTGL_ADMET(n, h, g, t, r)
    /\ ws = weighted_sum_readout(model)
    /\ InitGraph

Next ==
    \/ Model_Call
    \/ Model_Conv1
    \/ Model_Conv2
    \/ Model_Readout
    \/ WS_SpecificBody
    \/ WS_SpecificExit
    \/ WS_SharedBody
    \/ WS_SharedExit
    \/ WS_Return
    \/ Model_Unpack
    \/ Model_Mean
    \/ Model_Gate
    \/ Model_Assemble
    \/ Model_FC
    \/ Model_Return
    \/ Train
    \/ Eval

Spec == InitModel /\ [][Next]_vars

(***************************************************************************)
(* Properties.                                                             *)
(***************************************************************************)
Ended == pc \in {"done", "fault"}

\* Batch normalisation accepts the batch: in training mode it needs two rows.
BatchNormAccepts(rows) == training => rows >= 2

\* The weight term and the embedding term gate "name"[k] yields on features f.
WeightTerm(name, k, f) == Sym("Sigmoid", 0, <<Sym(name, k, <<f.src>>)>>)

EmbeddingTerm(name, k, f) == Sym("sum_nodes", 0, <<f.src, WeightTerm(name, k, f)>>)

\* The term of prediction head k applied to the term slot.
HeadTerm(k, slot) ==
    Sym("output_layer1", k, <<Sym("fc_layers2", k, <<Sym("fc_layers1", k, <<slot>>)>>)>>)

PredictionIs(rows, cols) ==
    /\ pc = "done"
    /\ ret.kind = "tensor"
    /\ ret.tensor.rows = rows
    /\ ret.tensor.cols = cols

FiveTasks == target = "model" /\ model.task_num = 5 /\ model.gnn_out_feats = 64

\* C1 as stated: with n_tasks = 5 and gnn_out_feats = 64 every call of
\* MTGL_ADMET.forward, on a batch of B >= 1 molecules, returns a tensor of B
\* rows and 5 columns.
C1_AnyBatch == (FiveTasks /\ Ended) => PredictionIs(BatchSize, 5)

\* C1 amended: with n_tasks = 5 and gnn_out_feats = 64 every call of
\* MTGL_ADMET.forward on a batch of B molecules that batch normalisation
\* accepts (B >= 2, or B >= 1 in evaluation mode) returns a tensor of B rows
\* and 5 columns, whatever the atoms per molecule and return_weight.
C1_BatchShape ==
    (FiveTasks /\ Ended /\ BatchNormAccepts(BatchSize)) => PredictionIs(BatchSize, 5)

\* C1 witness: a call in training mode on two molecules of different sizes, with
\* return_weight set, has returned.
C1_Witness ==
    /\ FiveTasks
    /\ pc = "done"
    /\ training
    /\ model.return_weight
    /\ BatchSize = 2
    /\ batch_num_nodes[1] # batch_num_nodes[2]

C3_Slots ==
    <<Idx(feats_list, 0).src,
      Sym("add", 0, <<Sym("add", 0, <<Sym("add", 0, <<Idx(combine, 0).src,
                                                      Idx(combine, 1).src>>),
                                      Idx(combine, 2).src>>),
                      Idx(combine, 3).src>>),
      Idx(feats_list, 1).src,
      Idx(feats_list, 2).src,
      Idx(feats_list, 3).src>>

\* C3: with n_tasks = 5, column k of the returned prediction is head k
\* (fc_layers1[k], fc_layers2[k], output_layer1[k]) applied to slot k of
\* [feats_list[0], combine_1, feats_list[1], feats_list[2], feats_list[3]],
\* columns in increasing k; only column 1 depends on a gate, and no head
\* consumes feats_list[4] directly.
C3_Columns ==
    (target = "model" /\ model.task_num = 5 /\ pc = "done") =>
        /\ Len(ret.tensor.src.args) = 5
        /\ \A k \in 0..4 :
              /\ ret.tensor.src.args[k + 1] = HeadTerm(k, C3_Slots[k + 1])
              /\ Mentions(ret.tensor.src.args[k + 1], "gates") <=> (k = 1)
              /\ ret.tensor.src.args[k + 1] # HeadTerm(k, Idx(feats_list, 4).src)

\* C3 witness: a call with n_tasks = 5 has returned five columns, the second of which
\* depends on a gate.
C3_Witness ==
    /\ FiveTasks
    /\ pc = "done"
    /\ ret.tensor.cols = 5
    /\ Mentions(ret.tensor.src.args[2], "gates")

\* C4 as stated, for the inputs batch normalisation accepts: whatever the
\* residual and batchnorm toggles, ResGCNLayer.forward on N nodes returns a
\* tensor of shape (N, out_feats).
C4_AnyToggle ==
    (target = "layer" /\ Ended /\ (layer.bn => BatchNormAccepts(NumNodes))) =>
        /\ pc = "done"
        /\ ret.tensor.rows = NumNodes
        /\ ret.tensor.cols = layer.out_feats

\* C5: with attention = False, WeightAndSum.forward returns, for every
\* task_num and return_weight, one tensor of shape (batch size, feature
\* width), the weighted sum of shared_weighting; never a list or a tuple.
C5_SharedOnly ==
    (target = "readout" /\ ~ws.attention) =>
        /\ pc # "fault"
        /\ pc = "done" =>
              /\ ret.kind = "tensor"
              /\ ret.tensor.rows = BatchSize
              /\ ret.tensor.cols = feats.cols
              /\ ret.tensor.src = EmbeddingTerm("shared_weighting", 0, feats)

\* C5 witness: a readout without attention, with return_weight set and two or more
\* tasks, has returned on a batch of two molecules.
C5_Witness ==
    /\ target = "readout"
    /\ pc = "done"
    /\ ~ws.attention
    /\ ws.return_weight
    /\ ws.task_num >= 2
    /\ BatchSize = 2

\* C6: with attention = True and return_weight = True, WeightAndSum.forward
\* returns a pair of lists of task_num entries each; entry i of both comes
\* from atom_weighting_specific[i], and every node-weight tensor has one row
\* per row of the input node features.
C6_PerTaskWeights ==
    (target = "readout" /\ pc = "done" /\ ws.attention /\ ws.return_weight) =>
        /\ ret.kind = "tuple"
        /\ Len(ret.list) = ws.task_num
        /\ Len(ret.list2) = ws.task_num
        /\ \A k \in 0..(ws.task_num - 1) :
              /\ Idx(ret.list, k).src
                    = EmbeddingTerm("atom_weighting_specific", k, feats)
              /\ Idx(ret.list, k).rows = BatchSize
              /\ Idx(ret.list2, k).src
                    = WeightTerm("atom_weighting_specific", k, feats)
              /\ Idx(ret.list2, k).rows = feats.rows
              /\ Idx(ret.list2, k).cols = 1

\* C6 witness: a readout with attention and return_weight, on two or more tasks and
\* three or more nodes, has returned.
C6_Witness ==
    /\ target = "readout"
    /\ pc = "done"
    /\ ws.attention
    /\ ws.return_weight
    /\ ws.task_num >= 2
    /\ NumNodes >= 3

\* C7: after any sequence of WeightAndSum.forward calls bg.ndata is what it
\* was before the first call: the 'h' and 'w' written inside each local scope
\* are gone, or back to their prior value, once the call has returned.
C7_NDataRestored ==
    (target = "readout" /\ pc \in Between) => (ndata = ndata0 /\ scope = <<>>)

\* C7 witness: a readout call has returned on a graph that held the caller's 'h' and no
\* 'w' before it: 'h' is the caller's again and 'w' is absent.
C7_Witness ==
    /\ target = "readout"
    /\ pc = "done"
    /\ ws.task_num >= 1
    /\ ~IsErr(ndata0["h"])
    /\ ndata["h"] = ndata0["h"]
    /\ IsErr(ndata["w"])

\* C8 as stated: after any sequence of MTGL_ADMET.forward calls bg.ndata is what
\* it was before the first call.
C8_NDataUnchanged == (target = "model" /\ pc = "done") => ndata = ndata0

\* C9 as stated, for the batches batch normalisation accepts: for every
\* n_tasks other than 5, MTGL_ADMET.forward ends in an IndexError, raised for
\* n_tasks <= 4 by feats_list[i] or feats_list[num_gates] in the gating loop
\* and for n_tasks >= 6 by combine_2[5] in the head loop.
C9_IndexFault ==
    (target = "model" /\ model.task_num # 5 /\ Ended /\ BatchNormAccepts(BatchSize)) =>
        /\ pc = "fault"
        /\ fault.kind = "IndexError"
        /\ model.task_num <= 4 => fault.at \in {"feats_list[i]", "feats_list[num_gates]"}
        /\ model.task_num >= 6 => (fault.at = "combine_2[i]" /\ i = 5)

\* C10 as stated: for every gnn_out_feats no gate raises on hg, the width of
\* the hg a gate was applied to being the input width the gates declare.
C10_GateWidth ==
    target = "model" =>
        /\ fault.at # "gates[i](hg)"
        /\ Len(combine) >= 1 => hg.cols = gate_in_features

=============================================================================
